---------------------------- MODULE Spec2Model ----------------------------
(***************************************************************************)
(* Model of leptos-declarative: the `If` branch selector (src/if_.rs) and  *)
(* the portal registry (src/portal.rs).                                    *)
(*                                                                         *)
(* Block indices are the 0-based indices of the source (`enumerate()`);    *)
(* block i of the list is blocks[i + 1].                                   *)
(***************************************************************************)
EXTENDS Integers, Sequences, FiniteSets, TLC

\* ------------------------------------------------------------------ bounds
MaxBlocks == 4      \* longest list of <Then>/<ElseIf>/<Else> children
MaxRenders == 3     \* cap on the total number of render() invocations
NumKeys == 2        \* number of distinct portal id types
NumRenderers == 2   \* number of distinct `children` renderers
MaxOps == 4         \* cap on the number of PortalInput/PortalOutput mounts

\* --------------------------------------------------------------- variables
VARIABLES
    \* --- If (src/if_.rs)
    debug,                \* cfg(debug_assertions)
    blocks,               \* if_blocks: the kinds of the IfBlock children
    signal,               \* the memoized `signal` of <If>
    guards,               \* guards[i]: the memoized signal of <ElseIf> i
    last_rendered_block,  \* Cell<Option<usize>>
    child,                \* Cell<View>
    renderCount,          \* renderCount[i]: invocations of block i's render
    tracked,              \* ElseIf memos the closure is subscribed to
    signal_tracked,       \* the closure is subscribed to `signal`
    dirty,                \* a tracked dependency changed since the last pass
    selected,             \* branch taken by the last pass (NotYet before)
    view,                 \* view returned by the last pass
    reused,               \* the last pass kept `child` without rendering
    pc,                   \* "init", "ready" or "panicked"
    panic_message,        \* message of the panic, NoPanic when none
    \* --- Portal (src/portal.rs)
    provided,             \* a PortalCtx is in scope
    portals,              \* PortalCtx.0: Vec<(TypeId, RwSignal<..>)>
    signals,              \* signals[s]: value of RwSignal s (Option<Children>)
    outputs,              \* the mounted <PortalOutput>s: [id, view, tracks]
    history,              \* log of the mounts performed
    ppc,                  \* "running" or "panicked"
    portal_panic          \* message of the panic, NoPanic when none

ifVars == <<debug, blocks, signal, guards, last_rendered_block, child,
            renderCount, tracked, signal_tracked, dirty, selected, view,
            reused, pc, panic_message>>
portalVars == <<provided, portals, signals, outputs, history, ppc,
                portal_panic>>
vars == <<ifVars, portalVars>>

\* ================================================================== If
Kinds == {"If", "ElseIf", "Else"}

\* Option<usize>::None
NoBlock == -1
\* no evaluation pass has run yet
NotYet == NoBlock - 1

\* ().into_view()
EmptyView == [block |-> NoBlock, gen |-> 0]
\* block i's render().into_view(), the gen-th fragment it produced
Rendered(i, gen) == [block |-> i, gen |-> gen]
NoView == [block |-> NotYet, gen |-> 0]

is_if(b) == b = "If"
is_else(b) == b = "Else"

BlockIdx(bs) == 0 .. (Len(bs) - 1)

is_trueOrThen(bs, gs, i) ==
    IF bs[i + 1] = "ElseIf" THEN gs[i] ELSE TRUE

\* IfBlock::is_true
is_true(bs, gs, i) ==
    IF bs[i + 1] = "ElseIf" THEN gs[i] ELSE is_else(bs[i + 1])

\* panic messages (the source's backquotes are written as ')
NoPanic == "no panic"
UnwrapNone == "called 'Option::unwrap()' on a 'None' value"
ShowFirst == "'<Show />' must be the first child of '<If />'"
OneShow == "there must not be more than 1 '<Show />' children within '<If />'"
ElseLast == "'<Else />' must be the last child of '<If />'"
OneElse == "there must not be more than 1 '<Else />' children within '<If />'"

RECURSIVE PositionFrom(_, _, _)
\* Iterator::position over the block kinds, from 0-based index i
PositionFrom(bs, kind, i) ==
    IF i >= Len(bs) THEN NoBlock
    ELSE IF bs[i + 1] = kind THEN i
    ELSE PositionFrom(bs, kind, i + 1)

Count(bs, kind) == Cardinality({i \in BlockIdx(bs) : bs[i + 1] = kind})

\* run_debug_checks: "ok" or the message of the first failing assertion
run_debug_checks(bs) ==
    IF Len(bs) = 0 THEN UnwrapNone
    ELSE IF ~is_if(bs[1]) THEN ShowFirst
    ELSE IF Count(bs, "If") # 1 THEN OneShow
    ELSE IF /\ PositionFrom(bs, "Else", 0) # NoBlock
            /\ PositionFrom(bs, "Else", 0) # Len(bs) - 1 THEN ElseLast
    ELSE IF ~(Count(bs, "Else") <= 1) THEN OneElse
    ELSE "ok"

\* the "Subscribe all <ElseIf /> blocks" loop: skip(1), track every ElseIf
SubscribedNone(bs) == {}
Subscribed(bs) == {i \in BlockIdx(bs) : i >= 1 /\ bs[i + 1] = "ElseIf"}

RECURSIVE FindLast(_, _, _)
FindLast(bs, gs, i) ==
    IF i >= Len(bs) THEN NoBlock
    ELSE IF FindLast(bs, gs, i + 1) # NoBlock THEN FindLast(bs, gs, i + 1)
    ELSE IF is_true(bs, gs, i) THEN i
    ELSE NoBlock

RECURSIVE FindSkipElseIf(_, _, _)
FindSkipElseIf(bs, gs, i) ==
    IF i >= Len(bs) THEN NoBlock
    ELSE IF is_else(bs[i + 1]) THEN i
    ELSE FindSkipElseIf(bs, gs, i + 1)

RECURSIVE Find(_, _, _)
\* if_blocks.find(|(_, block)| block.is_true()), scanning from index i
Find(bs, gs, i) ==
    IF i >= Len(bs) THEN NoBlock
    ELSE IF is_true(bs, gs, i) THEN i
    ELSE Find(bs, gs, i + 1)

\* the ElseIf memos read (signal.get()) by the scan of find
Scanned(bs, gs) ==
    LET f == Find(bs, gs, 0)
        upto == IF f = NoBlock THEN Len(bs) - 1 ELSE f
    IN  {i \in BlockIdx(bs) : i <= upto /\ bs[i + 1] = "ElseIf"}

\* last_rendered_block.get() != Some(i)
NeedsRenderAlways(lrb, i) == TRUE
NeedsRenderInverted(lrb, i) == lrb = i
NeedsRender(lrb, i) == lrb # i

TotalRenders ==
    LET RECURSIVE Sum(_)
        Sum(i) == IF i >= Len(blocks) THEN 0 ELSE renderCount[i] + Sum(i + 1)
    IN  Sum(0)

GuardAssignments(bs) ==
    {g \in [BlockIdx(bs) -> BOOLEAN] :
        \A i \in BlockIdx(bs) : bs[i + 1] # "ElseIf" => g[i] = FALSE}

BlockLists == UNION {[1 .. n -> Kinds] : n \in 0 .. MaxBlocks}

InitIf ==
    /\ debug \in BOOLEAN
    /\ blocks \in BlockLists
    /\ signal \in BOOLEAN
    /\ guards \in GuardAssignments(blocks)
    /\ last_rendered_block = NoBlock
    /\ child = EmptyView
    /\ renderCount = [i \in BlockIdx(blocks) |-> 0]
    /\ tracked = {}
    /\ signal_tracked = FALSE
    /\ dirty = FALSE
    /\ selected = NotYet
    /\ view = NoView
    /\ reused = FALSE
    /\ pc = "init"
    /\ panic_message = NoPanic

\* the body of `If` up to the returned closure
Construct ==
    /\ pc = "init"
    /\ LET r == IF debug THEN run_debug_checks(blocks) ELSE "ok"
       IN  /\ pc' = IF r = "ok" THEN "ready" ELSE "panicked"
           /\ panic_message' = IF r = "ok" THEN NoPanic ELSE r
    /\ UNCHANGED <<debug, blocks, signal, guards, last_rendered_block, child,
                   renderCount, tracked, signal_tracked, dirty, selected,
                   view, reused>>
    /\ UNCHANGED portalVars

RenderIntoEager(i) ==
    IF NeedsRender(last_rendered_block, i)
    THEN /\ last_rendered_block' = i
         /\ renderCount' = [j \in DOMAIN renderCount |-> renderCount[j] + 1]
         /\ child' = Rendered(i, renderCount[i] + 1)
         /\ reused' = FALSE
    ELSE /\ reused' = TRUE
         /\ UNCHANGED <<last_rendered_block, renderCount, child>>

\* render block i into `child` unless it is the block rendered last
RenderInto(i) ==
    IF NeedsRender(last_rendered_block, i)
    THEN /\ last_rendered_block' = i
         /\ renderCount' = [renderCount EXCEPT ![i] = @ + 1]
         /\ child' = Rendered(i, renderCount[i] + 1)
         /\ reused' = FALSE
    ELSE /\ reused' = TRUE
         /\ UNCHANGED <<last_rendered_block, renderCount, child>>

\* one call of the closure returned by `If`
Closure ==
    /\ pc = "ready"
    /\ TotalRenders < MaxRenders
    /\ signal_tracked' = TRUE
    /\ dirty' = FALSE
    /\ IF signal
       THEN IF Len(blocks) = 0
            THEN \* if_blocks.next().unwrap() on an empty list
                 /\ last_rendered_block' = 0
                 /\ pc' = "panicked"
                 /\ panic_message' = UnwrapNone
                 /\ tracked' = Subscribed(blocks)
                 /\ UNCHANGED <<renderCount, child, selected, view, reused>>
            ELSE /\ RenderInto(0)
                 /\ selected' = 0
                 /\ tracked' = Subscribed(blocks)
                 /\ view' = child'
                 /\ UNCHANGED <<pc, panic_message>>
       ELSE LET f == Find(blocks, guards, 0)
            IN  /\ IF f # NoBlock
                   THEN RenderInto(f)
                   ELSE /\ last_rendered_block' = NoBlock
                        /\ child' = EmptyView
                        /\ reused' = FALSE
                        /\ UNCHANGED renderCount
                /\ selected' = f
                /\ tracked' = Subscribed(blocks) \cup Scanned(blocks, guards)
                /\ view' = child'
                /\ UNCHANGED <<pc, panic_message>>
    /\ UNCHANGED <<debug, blocks, signal, guards>>
    /\ UNCHANGED portalVars

\* the source of the If signal changes value (a memo notifies on change only)
SetSignal ==
    /\ pc = "ready"
    /\ signal' = ~signal
    /\ dirty' = (dirty \/ signal_tracked)
    /\ UNCHANGED <<debug, blocks, guards, last_rendered_block, child,
                   renderCount, tracked, signal_tracked, selected, view,
                   reused, pc, panic_message>>
    /\ UNCHANGED portalVars

\* the source of the signal of <ElseIf> i changes value
SetGuard(i) ==
    /\ pc = "ready"
    /\ blocks[i + 1] = "ElseIf"
    /\ guards' = [guards EXCEPT ![i] = ~@]
    /\ dirty' = (dirty \/ i \in tracked)
    /\ UNCHANGED <<debug, blocks, signal, last_rendered_block, child,
                   renderCount, tracked, signal_tracked, selected, view,
                   reused, pc, panic_message>>
    /\ UNCHANGED portalVars

NextIf ==
    \/ Construct
    \/ Closure
    \/ SetSignal
    \/ \E i \in BlockIdx(blocks) : SetGuard(i)

\* ============================================================== Portal
\* the If machine while only the portal machine runs
IdleIf ==
    /\ debug = FALSE
    /\ blocks = <<>>
    /\ signal = FALSE
    /\ guards = <<>>
    /\ last_rendered_block = NoBlock
    /\ child = EmptyView
    /\ renderCount = <<>>
    /\ tracked = {}
    /\ signal_tracked = FALSE
    /\ dirty = FALSE
    /\ selected = NotYet
    /\ view = NoView
    /\ reused = FALSE
    /\ pc = "init"
    /\ panic_message = NoPanic

\* the id types (TypeId) and the `children` renderers of the application
Keys == 1 .. NumKeys
Renderers == 1 .. NumRenderers

\* Option<Children>::None; Some(children r) is r
NoChildren == 0
\* Iterator::position found nothing
NoPos == -1

\* CONTEXT_NOT_FOUND_ERROR_MESSAGE (the source's backquotes are written as ')
CONTEXT_NOT_FOUND_ERROR_MESSAGE ==
    "failed to find 'PortalCtx', make sure you are using '<PortalProvider />' somewhere near the root of the app"

\* ().into_view()
UnitView == [fragment |-> NoChildren]
\* children().into_view()
RenderChildren(r) == [fragment |-> r]

\* use_context::<PortalCtx>() is Some
HasContextAlways(p) == TRUE
HasContext(p) == p

positionFirst(ps, id) == IF Len(ps) > 0 THEN 0 ELSE NoPos
positionNever(ps, id) == NoPos

\* portals.iter().position(|(type_id, _)| *type_id == id.type_id())
position(ps, id) ==
    LET RECURSIVE From(_)
        From(i) == IF i >= Len(ps) THEN NoPos
                   ELSE IF ps[i + 1][1] = id THEN i
                   ELSE From(i + 1)
    IN  From(0)

\* what Option::take leaves behind
TakeKeeps(v) == v
Take(v) == NoChildren

InitPortal ==
    /\ provided = FALSE
    /\ portals = <<>>
    /\ signals = <<>>
    /\ outputs = <<>>
    /\ history = <<>>
    /\ ppc = "running"
    /\ portal_panic = NoPanic

\* <PortalProvider>: provide_context(PortalCtx(store_value(Default::default())))
PortalProvider ==
    /\ ppc = "running"
    /\ ~provided
    /\ provided' = TRUE
    /\ portals' = <<>>
    /\ UNCHANGED <<signals, outputs, history, ppc, portal_panic>>
    /\ UNCHANGED ifVars

\* .expect(CONTEXT_NOT_FOUND_ERROR_MESSAGE) on None
MissingProvider ==
    /\ ppc' = "panicked"
    /\ portal_panic' = CONTEXT_NOT_FOUND_ERROR_MESSAGE
    /\ UNCHANGED <<provided, portals, signals, outputs, history>>

\* <PortalInput id=id>children r</PortalInput>.  RwSignal::set notifies the
\* subscribers of the signal; no view subscribes (see PortalOutput), so no
\* mounted output changes.
PortalInput(id, r) ==
    /\ ppc = "running"
    /\ Len(history) < MaxOps
    /\ IF ~HasContext(provided)
       THEN MissingProvider
       ELSE /\ LET pos == position(portals, id)
               IN  IF pos # NoPos
                   THEN /\ signals' = [signals EXCEPT ![portals[pos + 1][2]] = r]
                        /\ UNCHANGED portals
                   ELSE /\ signals' = Append(signals, r)
                        /\ portals' = Append(portals, <<id, Len(signals) + 1>>)
            /\ history' = Append(history, [op |-> "in", id |-> id, r |-> r,
                                           out |-> 0])
            /\ UNCHANGED <<provided, outputs, ppc, portal_panic>>
    /\ UNCHANGED ifVars

\* <PortalOutput id=id />.  The component body runs once: it takes the
\* children out of the signal with RwSignal::update, which registers no
\* subscription, and returns a plain View, not a closure.
PortalOutput(id) ==
    /\ ppc = "running"
    /\ Len(history) < MaxOps
    /\ IF ~HasContext(provided)
       THEN MissingProvider
       ELSE LET pos == position(portals, id)
                sig == IF pos # NoPos THEN portals[pos + 1][2]
                       ELSE Len(signals) + 1
                created == IF pos # NoPos THEN signals
                           ELSE Append(signals, NoChildren)
                children == created[sig]
            IN  /\ portals' = IF pos # NoPos THEN portals
                              ELSE Append(portals, <<id, sig>>)
                /\ signals' = [created EXCEPT ![sig] = Take(@)]
                /\ outputs' = Append(outputs,
                       [id |-> id,
                        view |-> IF children # NoChildren
                                 THEN RenderChildren(children)
                                 ELSE UnitView])
                /\ history' = Append(history,
                       [op |-> "out", id |-> id, r |-> NoChildren,
                        out |-> Len(outputs) + 1])
                /\ UNCHANGED <<provided, ppc, portal_panic>>
    /\ UNCHANGED ifVars

NextPortal ==
    \/ PortalProvider
    \/ \E id \in Keys, r \in Renderers : PortalInput(id, r)
    \/ \E id \in Keys : PortalOutput(id)

\* ========================================================= specifications
IfInit == InitIf /\ InitPortal

PortalInit == InitPortal /\ IdleIf

SpecIf == IfInit /\ [][NextIf]_vars

SpecPortal == PortalInit /\ [][NextPortal]_vars

\* ================================================================ claims
\* a valid branch set: exactly one Then, first; ElseIfs; at most one Else, last
IsValid(bs) ==
    /\ Len(bs) >= 1
    /\ bs[1] = "If"
    /\ \A n \in 2 .. Len(bs) :
          bs[n] = "ElseIf" \/ (bs[n] = "Else" /\ n = Len(bs))

ElseIfs(bs) == {i \in BlockIdx(bs) : bs[i + 1] = "ElseIf"}

\* the documented priority: Then > first true ElseIf > Else > nothing
Expected(bs, sig, gs) ==
    LET T == {i \in ElseIfs(bs) : gs[i]}
        E == {i \in BlockIdx(bs) : bs[i + 1] = "Else"}
    IN  IF sig THEN 0
        ELSE IF T # {} THEN CHOOSE i \in T : \A j \in T : i <= j
        ELSE IF E # {} THEN CHOOSE i \in E : TRUE
        ELSE NoBlock

C5_NoRerenderOnSameBlock ==
    [][Closure =>
          /\ (selected # NotYet /\ selected' = selected) =>
                (renderCount' = renderCount /\ view' = view)
          /\ (selected # NotYet /\ ~dirty) =>
                (renderCount' = renderCount /\ view' = view)]_vars

\* C5 witness: the last pass took ElseIf 1 again and returned the fragment
\* rendered by the earlier pass, the only one block 1 ever rendered.
C5_Witness ==
    /\ pc = "ready"
    /\ reused
    /\ selected = 1
    /\ view = Rendered(1, 1)
    /\ renderCount[1] = 1

Descriptive == {ShowFirst, OneShow, ElseLast, OneElse}

\* C11: in a debug build, constructing an If with a block list that is not
\* valid (the empty list included) panics with one of the descriptive
\* assertion messages before any block is rendered, and every valid block
\* list passes.
C11_ValidationFailsDescriptively ==
    [][(Construct /\ debug) =>
          IF IsValid(blocks)
          THEN pc' = "ready" /\ panic_message' = NoPanic
          ELSE /\ pc' = "panicked"
               /\ panic_message' \in Descriptive
               /\ TotalRenders = 0 /\ view' = NoView]_vars

\* the blocks whose render function a step invoked
Invoked == {i \in BlockIdx(blocks) : renderCount'[i] # renderCount[i]}

\* C12: a pass invokes at most one render function, once, and only that of
\* the block the pass selects (for a valid list: the block the priority order
\* names).
C12_OnlySelectedRendered ==
    [][Closure =>
          /\ Cardinality(Invoked) <= 1
          /\ \A i \in Invoked :
                /\ renderCount'[i] = renderCount[i] + 1
                /\ i = selected'
                /\ i = view'.block
                /\ IsValid(blocks) => i = Expected(blocks, signal, guards)]_vars

\* C12 witness: a pass selected ElseIf 2 of a list of three or more blocks and
\* rendered it, and no other block was ever rendered.
C12_Witness ==
    /\ IsValid(blocks)
    /\ Len(blocks) >= 3
    /\ selected = 2
    /\ ~reused
    /\ view = Rendered(2, 1)
    /\ \A i \in BlockIdx(blocks) : renderCount[i] = (IF i = 2 THEN 1 ELSE 0)

\* C13: after every pass of a valid If, last_rendered_block is the block the
\* current condition values select (None when nothing), the returned view is
\* the latest fragment rendered for that block (the empty view when None), and
\* a pass that selects a block right after a pass that selected nothing
\* invokes its render function.
C13_NoStaleContent ==
    [][(Closure /\ IsValid(blocks)) =>
          LET e == Expected(blocks, signal, guards)
          IN  /\ last_rendered_block' = e
              /\ child' = view'
              /\ IF e = NoBlock
                 THEN view' = EmptyView
                 ELSE /\ view' = Rendered(e, renderCount'[e])
                      /\ renderCount'[e] >= 1
                      /\ selected = NoBlock =>
                            renderCount'[e] = renderCount[e] + 1]_vars

\* C13 witness: a block was rendered, a pass selected nothing, and the next
\* pass rendered the same block a second time.
C13_Witness ==
    /\ IsValid(blocks)
    /\ \E i \in BlockIdx(blocks) :
          /\ last_rendered_block = i
          /\ view = Rendered(i, 2)
          /\ \A j \in BlockIdx(blocks) :
                renderCount[j] = (IF j = i THEN 2 ELSE 0)

\* the block the scan of a pass stops at: the first ElseIf with a true guard
\* or Else, at any position
ScanExpected(bs, gs) ==
    LET S == {i \in BlockIdx(bs) :
                 (bs[i + 1] = "ElseIf" /\ gs[i]) \/ bs[i + 1] = "Else"}
    IN  IF S = {} THEN NoBlock ELSE CHOOSE i \in S : \A j \in S : i <= j

\* C16 as stated: in a release build with a malformed block list, a pass with
\* the If signal true shows block 0 whatever its kind, and a pass with the If
\* signal false shows the first block that is an ElseIf with a true guard or
\* an Else, never a Then.
C16_MalformedSelection ==
    [][(Closure /\ ~debug /\ ~IsValid(blocks)) =>
          /\ signal => view'.block = 0
          /\ ~signal => view'.block = ScanExpected(blocks, guards)
          /\ ~signal => (view'.block = NoBlock \/ blocks[view'.block + 1] # "If")]_vars

\* C16 amended: the same for a malformed list that is not empty; with the
\* empty list a pass with the If signal true panics on unwrap and returns
\* nothing, and a pass with the If signal false shows the empty view.
C16_MalformedSelectionNonEmpty ==
    [][(Closure /\ ~debug /\ ~IsValid(blocks)) =>
          /\ (signal /\ Len(blocks) > 0) =>
                (view'.block = 0 /\ pc' = "ready")
          /\ (signal /\ Len(blocks) = 0) =>
                (pc' = "panicked" /\ panic_message' = UnwrapNone /\ view' = view)
          /\ ~signal => view'.block = ScanExpected(blocks, guards)
          /\ ~signal => (view'.block = NoBlock \/ blocks[view'.block + 1] # "If")]_vars

\* C16 witness: release build, Else in the middle: the pass showed Else
\* although the ElseIf after it is true, and the Then after that is ignored.
C16_Witness ==
    /\ ~debug
    /\ blocks = <<"ElseIf", "Else", "ElseIf", "If">>
    /\ ~signal /\ ~guards[0] /\ guards[2]
    /\ ~dirty
    /\ view = Rendered(1, 1)

\* ------------------------------------------------------- portal claims
\* the positions of the log that are mounts of kind op on key k
OpsOn(op, k) == {p \in DOMAIN history : history[p].op = op /\ history[p].id = k}

\* the contents of the slots the registry holds for key k
SlotOf(ps, sg, k) == {sg[ps[n][2]] : n \in {m \in DOMAIN ps : ps[m][1] = k}}

\* the view of the output mounted at position p of the log
ViewAt(p) == outputs[history[p].out].view

\* C2: with one PortalOutput and one PortalInput for a key, mounted in either
\* order, the output displays the published children.
C2_OutputDisplaysPublished ==
    \A k \in Keys :
       (Cardinality(OpsOn("in", k)) = 1 /\ Cardinality(OpsOn("out", k)) = 1) =>
          LET i == CHOOSE p \in OpsOn("in", k) : TRUE
              o == CHOOSE p \in OpsOn("out", k) : TRUE
          IN  ViewAt(o) = RenderChildren(history[i].r)

\* C3: an output mounted right after a publish to its key (no other mount on
\* that key in between) shows the published children; an output mounted right
\* after another output of its key shows the empty content; after an output
\* the slot of its key is empty.
C3_TakeSemantics ==
    /\ \A p \in DOMAIN history :
          history[p].op = "out" =>
             LET before == {q \in 1 .. (p - 1) : history[q].id = history[p].id}
             IN  before # {} =>
                    LET q == CHOOSE x \in before : \A y \in before : y <= x
                    IN  /\ history[q].op = "in" =>
                              ViewAt(p) = RenderChildren(history[q].r)
                        /\ history[q].op = "out" => ViewAt(p) = UnitView
    /\ \A k \in Keys :
          LET on == {q \in DOMAIN history : history[q].id = k}
          IN  (on # {} /\ history[CHOOSE x \in on : \A y \in on : y <= x].op = "out")
                 => SlotOf(portals, signals, k) = {NoChildren}

\* C3 witness: publish(K, R), consume(K), consume(K): R, then empty.
C3_Witness ==
    /\ Len(history) >= 3
    /\ history[1].op = "in" /\ history[2].op = "out" /\ history[3].op = "out"
    /\ history[1].id = history[2].id /\ history[2].id = history[3].id
    /\ ViewAt(2) = RenderChildren(history[1].r)
    /\ ViewAt(3) = UnitView

\* C7: a PortalInput or PortalOutput mounted with no provider in scope panics
\* with the missing-provider message and leaves registry, slots and outputs
\* as they were.
C7_MissingProviderPanics ==
    [][(~provided /\ ~provided') =>
          /\ ppc' = "panicked"
          /\ portal_panic' = CONTEXT_NOT_FOUND_ERROR_MESSAGE
          /\ UNCHANGED <<portals, signals, outputs>>]_vars

\* C7 witness: a mount panicked for want of a provider.
C7_Witness ==
    /\ ppc = "panicked"
    /\ ~provided
    /\ portal_panic = CONTEXT_NOT_FOUND_ERROR_MESSAGE
    /\ portals = <<>> /\ signals = <<>> /\ outputs = <<>>

\* C8: under a provider, an output mounted for a key that has no slot shows
\* the empty content, does not panic, and appends one empty slot for the key.
C8_ConsumeUnpublished ==
    [][\A k \in Keys :
          (PortalOutput(k) /\ provided /\ SlotOf(portals, signals, k) = {}) =>
             /\ ppc' = "running"
             /\ outputs'[Len(outputs')].view = UnitView
             /\ Len(portals') = Len(portals) + 1
             /\ portals'[Len(portals')][1] = k
             /\ SlotOf(portals', signals', k) = {NoChildren}]_vars

\* C8 witness: the second key was first referenced by an output, after the
\* first key had got a slot.
C8_Witness ==
    /\ Len(history) >= 2
    /\ history[1].id # history[2].id
    /\ history[2].op = "out"
    /\ ViewAt(2) = UnitView
    /\ Len(portals) = 2

\* C9: a mount on one key leaves the slot of every other key as it was.
C9_KeysIndependent ==
    [][\A k \in Keys :
          (Len(history') = Len(history) + 1 /\ history'[Len(history')].id # k)
             => SlotOf(portals', signals', k) = SlotOf(portals, signals, k)]_vars

\* C9 witness: content published to one key survived a publish and a consume
\* on another key and was then consumed.
C9_Witness ==
    /\ Len(history) >= 4
    /\ history[1].op = "in"
    /\ history[2].op = "in" /\ history[2].id # history[1].id
    /\ history[2].r # history[1].r
    /\ history[3].op = "out" /\ history[3].id = history[2].id
    /\ history[4].op = "out" /\ history[4].id = history[1].id
    /\ ViewAt(4) = RenderChildren(history[1].r)

\* C10: the registry holds at most one slot per key, and a mount on a key
\* that has a slot appends nothing.
C10_OneSlotPerKey ==
    /\ \A m, n \in DOMAIN portals : portals[m][1] = portals[n][1] => m = n
    /\ Len(portals) = Cardinality({history[p].id : p \in DOMAIN history})

\* C10 witness: one key first referenced by a publish, another by a consume,
\* each referenced again: two slots.
C10_Witness ==
    /\ Len(history) >= 4
    /\ history[1].op = "in" /\ history[2].op = "out"
    /\ history[2].id = history[1].id
    /\ history[3].op = "out" /\ history[4].op = "in"
    /\ history[4].id = history[3].id
    /\ history[3].id # history[1].id
    /\ Len(portals) = 2

\* C14: an output mounted after one or more publishes to its key, with no
\* output of that key in between, shows the children published last; a
\* publish to a key that has a slot replaces the slot's content in place.
C14_LastPublishWins ==
    [][\A k \in Keys :
          /\ PortalOutput(k) =>
                LET outs == OpsOn("out", k)
                    last == IF outs = {} THEN 0
                            ELSE CHOOSE x \in outs : \A y \in outs : y <= x
                    ins == {q \in OpsOn("in", k) : q > last}
                IN  ins # {} =>
                       outputs'[Len(outputs')].view =
                          RenderChildren(
                             history[CHOOSE x \in ins : \A y \in ins : y <= x].r)
          /\ \A r \in Renderers :
                (PortalInput(k, r) /\ provided /\ SlotOf(portals, signals, k) # {})
                   => (SlotOf(portals', signals', k) = {r} /\ portals' = portals)]_vars

\* C14 witness: two different renderers published to one key, then an output
\* of that key: it shows the second.
C14_Witness ==
    /\ Len(history) >= 3
    /\ history[1].op = "in" /\ history[2].op = "in" /\ history[3].op = "out"
    /\ history[1].id = history[2].id /\ history[2].id = history[3].id
    /\ history[1].r # history[2].r
    /\ ViewAt(3) = RenderChildren(history[2].r)

\* C15: no step removes or changes an entry of the registry, and every key a
\* mount has referenced has an entry.
C15_RegistryOnlyGrows ==
    [][/\ Len(portals') >= Len(portals)
       /\ \A n \in DOMAIN portals : portals'[n] = portals[n]
       /\ \A p \in DOMAIN history' :
             \E n \in DOMAIN portals' : portals'[n][1] = history'[p].id]_vars

\* C15 witness: both keys were referenced, one first by a publish and one
\* first by an output, the published content was consumed, and both entries
\* are still in the registry, empty.
C15_Witness ==
    /\ Len(history) = 3
    /\ history[1].op = "in" /\ history[2].op = "out" /\ history[3].op = "out"
    /\ history[2].id # history[1].id
    /\ history[3].id = history[1].id
    /\ Len(portals) = 2
    /\ \A k \in Keys : SlotOf(portals, signals, k) = {NoChildren}

=============================================================================
